---- MODULE Spec2Model ----
(***************************************************************************)
(* Model of the zsh AI completion service (scripts/zsh_ai_server.py).      *)
(*                                                                         *)
(* Four state machines share this module:                                  *)
(*   ServeSpec  the request handler threads of one service process: the    *)
(*              lazy model load (get_llm), the inference lock and the      *)
(*              HTTP answers of do_GET / do_POST;                          *)
(*   LifeSpec   the operating-system view of the lifecycle manager: the    *)
(*              service processes, foreign port holders and the status /   *)
(*              stop command invocations, the pid and meta records, the    *)
(*              TCP port and the signals in flight.                        *)
(*   GenSpec    one call of generate_general_suggestion: the fallback, the *)
(*              usability of the clipboard and the suggestion returned,    *)
(*              for every prefix, clipboard and engine output in bounds.   *)
(*   ClientSpec one invocation of the client (scripts/zsh_ai_complete.py):  *)
(*              remote call, service launch, second remote call, local     *)
(*              model.                                                     *)
(* Each specification leaves the other machines' variables untouched.      *)
(***************************************************************************)
EXTENDS Naturals, FiniteSets, Sequences, TLC

\* ------------------------------------------------------------------ bounds
\* Number of handler threads (connections) of the service process.
NThreads == 2
\* Number of process ids the operating system hands out in one behaviour.
MaxPid == 3
\* Longest clipboard value and longest engine output, in symbols.
MaxLen == 2

Threads == 1..NThreads
Pids == 1..MaxPid
NoPid == 0
NoThread == 0

VARIABLES
    \* ---- service process, one entry per handler thread
    treq,       \* the request the thread is handling
    tpc,        \* the thread's position in do_GET / do_POST
    tresp,      \* the response written to the connection (code 0: none)
    LLM,        \* the global LLM: 0 is None, n > 0 the n-th instance loaded
    loads,      \* how many times load_ai_model returned an instance
    initLock,   \* holder of LLAMA_INIT_LOCK (0: free)
    inferLock,  \* holder of INFER_LOCK (0: free)
    \* ---- operating system, one entry per pid
    kind,       \* what runs under the pid
    perm,       \* whether the invoking user may signal the pid
    ppc,        \* the process's position in its program
    pending,    \* signal sent to the process and not yet acted on
    found,      \* stop: the set s of _collect_pids before the liveness filter
    cand,       \* stop: the list pids returned by _collect_pids
    termSent,   \* stop: pids given to os.kill(p, SIGTERM)
    killSent,   \* stop: pids given to os.kill(p, SIGKILL)
    out,        \* what the process printed
    rc,         \* its exit code (NoExit while running or when killed)
    rep,        \* status: the pid printed after RUNNING (0: "?" or none)
    pidFile,    \* content of PID_FILE (0: absent)
    metaFile,   \* meta["pid"] of META_FILE (0: absent)
    listener,   \* pid holding the TCP port in LISTEN state (0: none)
    nextPid,    \* next pid the operating system hands out
    \* ---- history of the lifecycle runs, kept to state the claims
    quiet,      \* no other lifecycle activity since this invocation began
    after,      \* stop: the stop run that ended right before this one began
    lastStop,   \* the stop run that just ended undisturbed (0: none)
    \* ---- one call of generate_general_suggestion
    prefix,           \* the argument prefix
    clipboard,        \* the argument clipboard: [type, value]
    gpc,              \* position in the function
    custom_fallback,  \* the local custom_fallback
    clip_ok,          \* the local clip_ok
    clip_for_prompt,  \* the local clip_for_prompt
    output,           \* what create_completion did
    suggestion,       \* the value returned
    \* ---- one invocation of the client
    argPrefix,   \* sys.argv[1]
    autoStart,   \* ZSH_AI_AUTO_START_SERVER is not "0"
    cpc,         \* position in __main__
    calls,       \* the timeouts of the remote calls made, in order
    remote,      \* what each remote call met, in order
    launches,    \* what each call of ensure_server_started did, in order
    loaded,      \* load_ai_model was called: "-", "ok" or "missing"
    csuggestion, \* the variable suggestion of __main__
    printed,     \* the suggestion printed last on stdout
    crc          \* the exit code

serveVars == <<treq, tpc, tresp, LLM, loads, initLock, inferLock>>
lifeVars == <<kind, perm, ppc, pending, found, cand, termSent, killSent, out, rc,
              rep, pidFile, metaFile, listener, nextPid, quiet, after, lastStop>>
genVars == <<prefix, clipboard, gpc, custom_fallback, clip_ok, clip_for_prompt,
             output, suggestion>>
vars == <<treq, tpc, tresp, LLM, loads, initLock, inferLock,
          kind, perm, ppc, pending, found, cand, termSent, killSent, out, rc,
          rep, pidFile, metaFile, listener, nextPid, quiet, after, lastStop,
          prefix, clipboard, gpc, custom_fallback, clip_ok, clip_for_prompt,
          output, suggestion,
          argPrefix, autoStart, cpc, calls, remote, launches, loaded,
          csuggestion, printed, crc>>
clientVars == <<argPrefix, autoStart, cpc, calls, remote, launches, loaded,
                csuggestion, printed, crc>>
\* What the steps of one machine leave alone.
notServe == <<lifeVars, genVars, clientVars>>
notLife == <<serveVars, genVars, clientVars>>
notGen == <<serveVars, lifeVars, clientVars>>
notClient == <<serveVars, lifeVars, genVars>>

\* =================================================================== service
\* BASE_FALLBACK's keys are the known prefixes; two of them stand for the set.
KnownPrefixes == {"ssh", "git"}

NoReq == [method |-> "-", path |-> "-", body |-> "-", prefix |-> "-", clip |-> "-"]

\* The requests a connection may carry.  body: "bad_json" does not parse,
\* "non_object" parses to a JSON value without .get, "object" is a JSON object.
\* clip: "ok" has type and value, "absent" takes do_POST's default,
\* "no_value" is an object without the key "value", "no_type" one without
\* the key "type".
Requests ==
    {[method |-> "GET", path |-> p, body |-> "-", prefix |-> "-", clip |-> "-"] :
        p \in {"/health", "/other"}}
    \cup {[method |-> "POST", path |-> "/other", body |-> "-", prefix |-> "-", clip |-> "-"]}
    \cup {[method |-> "POST", path |-> "/complete", body |-> b, prefix |-> "-", clip |-> "-"] :
        b \in {"bad_json", "non_object"}}
    \cup {[method |-> "POST", path |-> "/complete", body |-> "object", prefix |-> x, clip |-> "-"] :
        x \in {"", "frobnicate"}}
    \cup {[method |-> "POST", path |-> "/complete", body |-> "object", prefix |-> x, clip |-> c] :
        x \in KnownPrefixes, c \in {"ok", "absent", "no_value", "no_type"}}

NoResp == [code |-> 0, body |-> "-"]
Resp(c, b) == [code |-> c, body |-> b]
\* The handler raised e: the connection is closed and nothing was written.
Raised(e) == [code |-> 0, body |-> e]

\* A valid /complete request: the body parses and the prefix is known.
ValidComplete(r) ==
    /\ r.method = "POST" /\ r.path = "/complete"
    /\ r.body = "object" /\ r.prefix \in KnownPrefixes

ServeInit ==
    /\ treq = [t \in Threads |-> NoReq]
    /\ tpc = [t \in Threads |-> "idle"]
    /\ tresp = [t \in Threads |-> NoResp]
    /\ LLM = 0
    /\ loads = 0
    /\ initLock = NoThread
    /\ inferLock = NoThread

\* ThreadingHTTPServer hands an accepted connection to a thread of its own.
Accept(t, r) ==
    /\ tpc[t] = "idle"
    /\ treq' = [treq EXCEPT ![t] = r]
    /\ tpc' = [tpc EXCEPT ![t] = "recv"]
    /\ UNCHANGED <<notServe, tresp, LLM, loads, initLock, inferLock>>

\* The handler ends: it answered, or it raised and the connection was closed
\* with nothing written (code 0).
Finish(t, r) ==
    /\ tpc' = [tpc EXCEPT ![t] = "done"]
    /\ tresp' = [tresp EXCEPT ![t] = r]

\* do_GET as a bug would have it: the health answer waits for the inference lock.
DoGetLocked(t) ==
    /\ tpc[t] = "recv" /\ treq[t].method = "GET"
    /\ inferLock = NoThread
    /\ Finish(t, IF treq[t].path = "/health" THEN Resp(200, "status_ok")
                 ELSE Resp(404, "not_found"))
    /\ UNCHANGED <<notServe, treq, LLM, loads, initLock, inferLock>>

DoGet(t) ==
    /\ tpc[t] = "recv" /\ treq[t].method = "GET"
    /\ Finish(t, IF treq[t].path = "/health" THEN Resp(200, "status_ok")
                 ELSE Resp(404, "not_found"))
    /\ UNCHANGED <<notServe, treq, LLM, loads, initLock, inferLock>>

\* do_POST as a bug would have it: the prefix is not validated.
DoPostValidateLoose(t) ==
    /\ tpc[t] = "recv" /\ treq[t].method = "POST"
    /\ LET r == treq[t] IN
         IF r.path # "/complete" THEN Finish(t, Resp(404, "not_found"))
         ELSE IF r.body = "bad_json" THEN Finish(t, Resp(400, "bad_json"))
         ELSE IF r.body = "non_object" THEN Finish(t, Raised("AttributeError"))
         ELSE tpc' = [tpc EXCEPT ![t] = "get_llm"] /\ UNCHANGED tresp
    /\ UNCHANGED <<notServe, treq, LLM, loads, initLock, inferLock>>

\* do_POST up to the call of get_llm.  A body that parses to a value that is
\* no object has no .get: the handler raises AttributeError.
DoPostValidate(t) ==
    /\ tpc[t] = "recv" /\ treq[t].method = "POST"
    /\ LET r == treq[t] IN
         IF r.path # "/complete" THEN Finish(t, Resp(404, "not_found"))
         ELSE IF r.body = "bad_json" THEN Finish(t, Resp(400, "bad_json"))
         ELSE IF r.body = "non_object" THEN Finish(t, Raised("AttributeError"))
         ELSE IF r.prefix = "" \/ r.prefix \notin KnownPrefixes
              THEN Finish(t, Resp(400, "bad_prefix"))
         ELSE tpc' = [tpc EXCEPT ![t] = "get_llm"] /\ UNCHANGED tresp
    /\ UNCHANGED <<notServe, treq, LLM, loads, initLock, inferLock>>

\* get_llm, the unlocked test `if LLM is None`.
GetLlmCheck(t) ==
    /\ tpc[t] = "get_llm"
    /\ tpc' = [tpc EXCEPT ![t] = IF LLM = 0 THEN "init_wait" ELSE "lock_infer"]
    /\ UNCHANGED <<notServe, treq, tresp, LLM, loads, initLock, inferLock>>

\* `with LLAMA_INIT_LOCK:` entered.
InitAcquire(t) ==
    /\ tpc[t] = "init_wait"
    /\ initLock = NoThread
    /\ initLock' = t
    /\ tpc' = [tpc EXCEPT ![t] = "init_locked"]
    /\ UNCHANGED <<notServe, treq, tresp, LLM, loads, inferLock>>

\* get_llm as a bug would have it: no second test under the init lock.
InitLoadUnchecked(t) ==
    /\ tpc[t] = "init_locked"
    /\ initLock' = NoThread
    /\ \/ /\ LLM' = loads + 1
          /\ loads' = loads + 1
          /\ tpc' = [tpc EXCEPT ![t] = "lock_infer"]
          /\ UNCHANGED tresp
       \/ /\ Finish(t, Raised("load_failed"))
          /\ UNCHANGED <<LLM, loads>>
    /\ UNCHANGED <<notServe, treq, inferLock>>

\* Under the init lock: the second test, and load_ai_model when LLM is still
\* None.  load_ai_model returns an instance, or leaves by sys.exit / an
\* exception of Llama(); the with statement releases the lock either way.
InitLoad(t) ==
    /\ tpc[t] = "init_locked"
    /\ initLock' = NoThread
    /\ IF LLM # 0
         THEN /\ tpc' = [tpc EXCEPT ![t] = "lock_infer"]
              /\ UNCHANGED <<tresp, LLM, loads>>
         ELSE \/ /\ LLM' = loads + 1
                 /\ loads' = loads + 1
                 /\ tpc' = [tpc EXCEPT ![t] = "lock_infer"]
                 /\ UNCHANGED tresp
              \/ /\ Finish(t, Raised("load_failed"))
                 /\ UNCHANGED <<LLM, loads>>
    /\ UNCHANGED <<notServe, treq, inferLock>>

\* INFER_LOCK as a bug would have it: entered without waiting for the holder.
InferLockFreeAlways == TRUE

\* threading.Lock: acquire waits until the lock is free.
InferLockFree == inferLock = NoThread

\* `with INFER_LOCK:` entered; generate_general_suggestion is called.
AcquireInfer(t) ==
    /\ tpc[t] = "lock_infer"
    /\ InferLockFree
    /\ inferLock' = t
    /\ tpc' = [tpc EXCEPT ![t] = "compose"]
    /\ UNCHANGED <<notServe, treq, tresp, LLM, loads, initLock>>

\* generate_general_suggestion up to the prompt: clipboard["value"] raises
\* KeyError on a clipboard object without that key, and clipboard["type"]
\* does for the prefixes whose template test reads it (ssh, cd; the test of
\* git reads the value only).  The exception leaves the with block, which
\* releases INFER_LOCK, and ends the handler.
Compose(t) ==
    /\ tpc[t] = "compose"
    /\ IF treq[t].clip = "no_value"
          \/ (treq[t].clip = "no_type" /\ treq[t].prefix \in {"ssh", "cd"})
         THEN Finish(t, Raised("KeyError")) /\ inferLock' = NoThread
         ELSE tpc' = [tpc EXCEPT ![t] = "tokenize"] /\ UNCHANGED <<tresp, inferLock>>
    /\ UNCHANGED <<notServe, treq, LLM, loads, initLock>>

\* truncate_prompt_by_tokens: llm.tokenize runs outside the try block; the
\* engine returns (the prompt fits or is cut to 100 characters) or raises.
Tokenize(t) ==
    /\ tpc[t] = "tokenize"
    /\ \E engine \in {"fits", "too_long", "raises"} :
         IF engine = "raises"
           THEN Finish(t, Raised("tokenize_raised")) /\ inferLock' = NoThread
           ELSE tpc' = [tpc EXCEPT ![t] = "complete"] /\ UNCHANGED <<tresp, inferLock>>
    /\ UNCHANGED <<notServe, treq, LLM, loads, initLock>>

\* The try block: create_completion returns a usable text, an unusable one,
\* or raises; the last two give the fallback.  The function returns and the
\* with block releases INFER_LOCK.
Complete(t) ==
    /\ tpc[t] = "complete"
    /\ \E engine \in {"usable", "unusable", "raises"} :
         /\ tresp' = [tresp EXCEPT ![t] =
                Resp(0, IF engine = "usable" THEN "raw" ELSE "fallback")]
    /\ inferLock' = NoThread
    /\ tpc' = [tpc EXCEPT ![t] = "respond"]
    /\ UNCHANGED <<notServe, treq, LLM, loads, initLock>>

\* self._json_response(200, {"suggestion": suggestion})
Respond(t) ==
    /\ tpc[t] = "respond"
    /\ Finish(t, Resp(200, tresp[t].body))
    /\ UNCHANGED <<notServe, treq, LLM, loads, initLock, inferLock>>

\* The thread is inside generate_general_suggestion.
InInference(t) == tpc[t] \in {"compose", "tokenize", "complete"}

ServeNext ==
    \/ \E t \in Threads, r \in Requests : Accept(t, r)
    \/ \E t \in Threads : DoGet(t)
    \/ \E t \in Threads : DoPostValidate(t)
    \/ \E t \in Threads : GetLlmCheck(t)
    \/ \E t \in Threads : InitAcquire(t)
    \/ \E t \in Threads : InitLoad(t)
    \/ \E t \in Threads : AcquireInfer(t)
    \/ \E t \in Threads : Compose(t)
    \/ \E t \in Threads : Tokenize(t)
    \/ \E t \in Threads : Complete(t)
    \/ \E t \in Threads : Respond(t)

\* ================================================================= lifecycle
\* What runs under a pid: nothing yet, the service (no subcommand), a process
\* that is not this program and holds the TCP port, or a stop / status
\* invocation of scripts/zsh_ai_server.py.
Kinds == {"none", "server", "foreign", "stop", "status"}
\* The command lines `ps -ef` shows with "scripts/zsh_ai_server.py" in them.
ScriptKinds == {"server", "stop", "status"}
\* Exit codes are written as the shell shows them; "-" while the process has
\* not exited (or was killed).
NoExit == "-"

LifeInit ==
    /\ kind = [p \in Pids |-> "none"]
    /\ perm = [p \in Pids |-> TRUE]
    /\ ppc = [p \in Pids |-> "none"]
    /\ pending = [p \in Pids |-> "none"]
    /\ found = [p \in Pids |-> {}]
    /\ cand = [p \in Pids |-> {}]
    /\ termSent = [p \in Pids |-> {}]
    /\ killSent = [p \in Pids |-> {}]
    /\ out = [p \in Pids |-> "-"]
    /\ rc = [p \in Pids |-> NoExit]
    /\ rep = [p \in Pids |-> NoPid]
    /\ pidFile = NoPid
    /\ metaFile = NoPid
    /\ listener = NoPid
    /\ nextPid = 1
    /\ quiet = [p \in Pids |-> FALSE]
    /\ after = [p \in Pids |-> NoPid]
    /\ lastStop = NoPid

\* The process exists: it was started and has neither exited nor been killed.
Alive(p) == p \in Pids /\ kind[p] # "none" /\ ppc[p] \notin {"dead", "exited", "done"}

\* _pid_running as a bug would have it: a recorded pid counts as running.
PidRunningTrusting(pid) == pid # NoPid

\* _pid_running: os.kill(pid, 0) succeeds only for a live process the caller
\* may signal; ProcessLookupError and PermissionError both give False.
PidRunning(pid) == pid # NoPid /\ Alive(pid) /\ perm[pid]

\* check_server_alive: the port answers /health with status ok.  Only a
\* service whose main thread is inside the serve_forever loop accepts the
\* connection and answers.
HealthOk == listener # NoPid /\ kind[listener] = "server" /\ ppc[listener] = "serving"

\* _lsof_listen_pid: the pids holding the port in LISTEN state.
LsofPids == IF listener = NoPid THEN {} ELSE {listener}

\* find_server_pids: every other live process whose command line names the
\* script, except the caller itself.
FindServerPids(self) == {q \in Pids \ {self} : Alive(q) /\ kind[q] \in ScriptKinds}

\* pids[0], lines[0]: ps and lsof list pids in increasing order.
First(S) == CHOOSE q \in S : \A r \in S : q <= r

\* Another lifecycle step happened: running invocations are no longer alone.
Disturb(self) ==
    quiet' = [r \in Pids |-> quiet[r] /\ (r = self \/ ppc[r] = "done")]

\* The operating system starts a program under the next pid.
Spawn(k, pm) ==
    /\ nextPid <= MaxPid
    /\ k # "server" => pm
    /\ k = "foreign" => listener = NoPid
    /\ LET p == nextPid IN
         /\ kind' = [kind EXCEPT ![p] = k]
         /\ perm' = [perm EXCEPT ![p] = pm]
         /\ ppc' = [ppc EXCEPT ![p] =
                CASE k = "server" -> "start"
                  [] k = "foreign" -> "run"
                  [] k = "stop" -> "collect"
                  [] OTHER -> "run"]
         /\ listener' = IF k = "foreign" THEN p ELSE listener
         /\ quiet' = [r \in Pids |-> IF r = p THEN TRUE ELSE quiet[r] /\ ppc[r] = "done"]
         /\ after' = [after EXCEPT ![p] = IF k = "stop" THEN lastStop ELSE NoPid]
    /\ nextPid' = nextPid + 1
    /\ lastStop' = NoPid
    /\ UNCHANGED <<notLife, pending, found, cand, termSent, killSent, out, rc, rep,
                   pidFile, metaFile>>

\* A signal sent to a service process from outside the lifecycle manager (an
\* operator's kill, the owner of a process the invoking user may not signal).
OperatorSignal(p, sig) ==
    /\ Alive(p) /\ kind[p] = "server"
    /\ pending[p] = "none"
    /\ pending' = [pending EXCEPT ![p] = sig]
    /\ Disturb(NoPid)
    /\ lastStop' = NoPid
    /\ UNCHANGED <<notLife, kind, perm, ppc, found, cand, termSent, killSent, out, rc, rep,
                   pidFile, metaFile, listener, nextPid, after>>

\* The process ends without running any of its code: its port is released,
\* the records stay as they are.
Die(p) ==
    /\ ppc' = [ppc EXCEPT ![p] = "dead"]
    /\ pending' = [pending EXCEPT ![p] = "none"]
    /\ listener' = IF listener = p THEN NoPid ELSE listener

\* SIGKILL, or SIGTERM / SIGINT with the default action: the service before
\* signal.signal() ran, the stop and status invocations (which install no
\* handler), and a foreign process that does not handle the signal.
Terminate(p) ==
    /\ Alive(p)
    /\ \/ pending[p] = "KILL"
       \/ pending[p] = "TERM" /\ ~(kind[p] = "server" /\ ppc[p] # "start")
    /\ Die(p)
    /\ UNCHANGED <<notLife, kind, perm, found, cand, termSent, killSent, out, rc, rep,
                   pidFile, metaFile, nextPid, quiet, after, lastStop>>

\* A foreign process that handles SIGTERM and goes on; a service whose main
\* thread is already blocked inside _signal_handler runs the handler again,
\* which blocks again.
AbsorbTerm(p) ==
    /\ Alive(p)
    /\ pending[p] = "TERM"
    /\ \/ kind[p] = "foreign"
       \/ kind[p] = "server" /\ ppc[p] = "in_handler"
    /\ pending' = [pending EXCEPT ![p] = "none"]
    /\ UNCHANGED <<notLife, kind, perm, ppc, found, cand, termSent, killSent, out, rc, rep,
                   pidFile, metaFile, listener, nextPid, quiet, after, lastStop>>

\* --------------------------------------------------------- service process
\* The bind as a bug would have it: the cleanup runs on the way out of a
\* start that found the port taken.
ServerStartBusyCleaning(p) ==
    /\ kind[p] = "server" /\ ppc[p] = "start"
    /\ listener # NoPid
    /\ ppc' = [ppc EXCEPT ![p] = "exited"]
    /\ out' = [out EXCEPT ![p] = IF HealthOk THEN "INFO_RUNNING" ELSE "ERROR_PORT"]
    /\ rc' = [rc EXCEPT ![p] = IF HealthOk THEN "0" ELSE "1"]
    /\ pidFile' = NoPid /\ metaFile' = NoPid
    /\ UNCHANGED <<notLife, kind, perm, pending, found, cand, termSent, killSent, rep,
                   listener, nextPid, quiet, after, lastStop>>

\* ReuseAddrServer(...) raises OSError EADDRINUSE: the port is held.  The
\* start asks /health and exits 0 (this service runs already) or 1 (foreign
\* occupant).  Nothing was installed or written before.
ServerStartBusy(p) ==
    /\ kind[p] = "server" /\ ppc[p] = "start"
    /\ listener # NoPid
    /\ ppc' = [ppc EXCEPT ![p] = "exited"]
    /\ out' = [out EXCEPT ![p] = IF HealthOk THEN "INFO_RUNNING" ELSE "ERROR_PORT"]
    /\ rc' = [rc EXCEPT ![p] = IF HealthOk THEN "0" ELSE "1"]
    /\ UNCHANGED <<notLife, kind, perm, pending, found, cand, termSent, killSent, rep,
                   pidFile, metaFile, listener, nextPid, quiet, after, lastStop>>

\* The bind succeeds: HTTPD is set, the handlers of SIGINT and SIGTERM are
\* installed, _write_pid writes both records, the cleanup is registered with
\* atexit and the main thread enters serve_forever.
ServerBind(p) ==
    /\ kind[p] = "server" /\ ppc[p] = "start"
    /\ listener = NoPid
    /\ listener' = p
    /\ pidFile' = p
    /\ metaFile' = p
    /\ ppc' = [ppc EXCEPT ![p] = "serving"]
    /\ Disturb(NoPid)
    /\ lastStop' = NoPid
    /\ UNCHANGED <<notLife, kind, perm, pending, found, cand, termSent, killSent, out, rc, rep,
                   nextPid, after>>

\* _signal_handler runs on the main thread, on top of the serve_forever
\* frame it interrupted.  HTTPD is set, so it calls HTTPD.shutdown(), which
\* asks the loop to stop and waits until serve_forever has returned.  The
\* loop is the interrupted frame: it cannot run before the handler returns,
\* so shutdown() never returns, and the finally block (_remove_pid,
\* sys.exit(0)) is not reached.  The listening socket stays open and no
\* connection is accepted any more.
SignalHandler(p) ==
    /\ kind[p] = "server" /\ ppc[p] = "serving"
    /\ pending[p] = "TERM"
    /\ pending' = [pending EXCEPT ![p] = "none"]
    /\ ppc' = [ppc EXCEPT ![p] = "in_handler"]
    /\ UNCHANGED <<notLife, kind, perm, found, cand, termSent, killSent, out, rc, rep,
                   pidFile, metaFile, listener, nextPid, quiet, after, lastStop>>

\* ------------------------------------------------------------ stop command
\* os.kill(q, sig) for every q of S: the signal is queued for a live process
\* the caller may signal; every failure is swallowed by _terminate_pids.
Signalled(S, sig) ==
    [q \in Pids |->
        IF q \in S /\ Alive(q) /\ perm[q]
          THEN (IF sig = "KILL" \/ pending[q] = "KILL" THEN "KILL" ELSE "TERM")
          ELSE pending[q]]

\* A step of a stop run is lifecycle activity for every other invocation.
StopStep(p) ==
    /\ kind[p] = "stop"
    /\ Disturb(p)

\* _collect_pids: the union of the pid record, the meta record, the port
\* listeners and the process scan, filtered by _pid_running.
StopCollect(p) ==
    /\ StopStep(p) /\ ppc[p] = "collect"
    /\ LET s == ({pidFile, metaFile} \ {NoPid}) \cup LsofPids \cup FindServerPids(p)
           pids == {q \in s : PidRunning(q)}
       IN /\ found' = [found EXCEPT ![p] = s]
          /\ cand' = [cand EXCEPT ![p] = pids]
          /\ ppc' = [ppc EXCEPT ![p] = IF pids # {} THEN "term" ELSE "remove"]
    /\ lastStop' = NoPid
    /\ UNCHANGED <<notLife, kind, perm, pending, termSent, killSent, out, rc, rep,
                   pidFile, metaFile, listener, nextPid, after>>

\* _terminate_pids(pids, signal.SIGTERM)
StopTerm(p) ==
    /\ StopStep(p) /\ ppc[p] = "term"
    /\ pending' = Signalled(cand[p], "TERM")
    /\ termSent' = [termSent EXCEPT ![p] = cand[p]]
    /\ ppc' = [ppc EXCEPT ![p] = "wait1"]
    /\ lastStop' = NoPid
    /\ UNCHANGED <<notLife, kind, perm, found, cand, killSent, out, rc, rep,
                   pidFile, metaFile, listener, nextPid, after>>

\* One poll of _wait_stopped: no candidate pid runs and the port does not
\* answer /health.
Quiescent(p) == ~(\E q \in cand[p] : PidRunning(q)) /\ ~HealthOk

\* _wait_stopped as a bug would have it: the deadline alone decides, whatever
\* the polls saw.
StopWait1Hasty(p) ==
    /\ StopStep(p) /\ ppc[p] = "wait1"
    /\ \/ Quiescent(p) /\ ppc' = [ppc EXCEPT ![p] = "remove"]
       \/ ppc' = [ppc EXCEPT ![p] = "kill"]
    /\ lastStop' = NoPid
    /\ UNCHANGED <<notLife, kind, perm, pending, found, cand, termSent, killSent, out, rc, rep,
                   pidFile, metaFile, listener, nextPid, after>>

\* _wait_stopped(..., timeout=3.0): a poll finds the service quiescent
\* (ok = True), or the last poll before the deadline does not (ok = False).
\* The polls before the last one, and the time up to the deadline, are steps
\* of the other processes.
StopWait1(p) ==
    /\ StopStep(p) /\ ppc[p] = "wait1"
    /\ IF Quiescent(p)
         THEN ppc' = [ppc EXCEPT ![p] = "remove"]
         ELSE ppc' = [ppc EXCEPT ![p] = "kill"]
    /\ lastStop' = NoPid
    /\ UNCHANGED <<notLife, kind, perm, pending, found, cand, termSent, killSent, out, rc, rep,
                   pidFile, metaFile, listener, nextPid, after>>

\* not ok: _terminate_pids(pids, signal.SIGKILL), then
\* _wait_stopped(..., timeout=2.0), whose result is not used: the wait is the
\* time that passes before the next step of the run.
StopKill(p) ==
    /\ StopStep(p) /\ ppc[p] = "kill"
    /\ pending' = Signalled(cand[p], "KILL")
    /\ killSent' = [killSent EXCEPT ![p] = cand[p]]
    /\ ppc' = [ppc EXCEPT ![p] = "remove"]
    /\ lastStop' = NoPid
    /\ UNCHANGED <<notLife, kind, perm, found, cand, termSent, out, rc, rep,
                   pidFile, metaFile, listener, nextPid, after>>

\* _remove_pid as a bug would have it: called inside the `if pids:` block only.
StopRemoveIfCandidates(p) ==
    /\ StopStep(p) /\ ppc[p] = "remove"
    /\ pidFile' = IF cand[p] = {} THEN pidFile ELSE NoPid
    /\ metaFile' = IF cand[p] = {} THEN metaFile ELSE NoPid
    /\ ppc' = [ppc EXCEPT ![p] = "final"]
    /\ lastStop' = NoPid
    /\ UNCHANGED <<notLife, kind, perm, pending, found, cand, termSent, killSent, out, rc, rep,
                   listener, nextPid, after>>

\* _remove_pid()
StopRemove(p) ==
    /\ StopStep(p) /\ ppc[p] = "remove"
    /\ pidFile' = NoPid
    /\ metaFile' = NoPid
    /\ ppc' = [ppc EXCEPT ![p] = "final"]
    /\ lastStop' = NoPid
    /\ UNCHANGED <<notLife, kind, perm, pending, found, cand, termSent, killSent, out, rc, rep,
                   listener, nextPid, after>>

\* The final check as a bug would have it: only the port is looked at.
StopIssuePortOnly(p) == HealthOk

\* The final check as another bug would have it: only the pids are looked at.
StopIssuePidsOnly(p) == \E q \in cand[p] : PidRunning(q)

\* The final check: the port answers /health or a collected pid still runs.
StopIssue(p) == HealthOk \/ (\E q \in cand[p] : PidRunning(q))

\* print STOPPED_WITH_ISSUE, exit 1, or print STOPPED, exit 0.
StopFinal(p) ==
    /\ StopStep(p) /\ ppc[p] = "final"
    /\ out' = [out EXCEPT ![p] = IF StopIssue(p) THEN "STOPPED_WITH_ISSUE" ELSE "STOPPED"]
    /\ rc' = [rc EXCEPT ![p] = IF StopIssue(p) THEN "1" ELSE "0"]
    /\ ppc' = [ppc EXCEPT ![p] = "done"]
    /\ lastStop' = IF quiet[p] THEN p ELSE NoPid
    /\ UNCHANGED <<notLife, kind, perm, pending, found, cand, termSent, killSent, rep,
                   pidFile, metaFile, listener, nextPid, after>>

\* ---------------------------------------------------------- status command
\* The pid status prints, or NoPid when it prints STOPPED or "RUNNING ?".
\* The port listener and the process scan are asked for a pid to print only
\* after /health answered.
StatusPid(p) ==
    IF PidRunning(pidFile) THEN pidFile
    ELSE IF HealthOk
      THEN (IF LsofPids # {} THEN First(LsofPids)
            ELSE IF FindServerPids(p) # {} THEN First(FindServerPids(p))
            ELSE NoPid)
    ELSE IF PidRunning(metaFile) THEN metaFile
    ELSE IF FindServerPids(p) # {} THEN First(FindServerPids(p))
    ELSE NoPid

\* status as a bug would have it: the process scan is not consulted.
StatusRunningNoScan(p) ==
    \/ PidRunning(pidFile)
    \/ HealthOk
    \/ PidRunning(metaFile)

\* status prints RUNNING: the recorded pid runs, or /health answers, or the
\* meta record's pid runs, or the process scan finds a pid.
StatusRunning(p) ==
    \/ PidRunning(pidFile)
    \/ HealthOk
    \/ PidRunning(metaFile)
    \/ FindServerPids(p) # {}

\* The whole status command: its probes, one line printed, the exit code.
StatusRun(p) ==
    /\ kind[p] = "status" /\ ppc[p] = "run"
    /\ out' = [out EXCEPT ![p] = IF StatusRunning(p) THEN "RUNNING" ELSE "STOPPED"]
    /\ rc' = [rc EXCEPT ![p] = IF StatusRunning(p) THEN "0" ELSE "1"]
    /\ rep' = [rep EXCEPT ![p] = StatusPid(p)]
    /\ ppc' = [ppc EXCEPT ![p] = "done"]
    /\ UNCHANGED <<notLife, kind, perm, pending, found, cand, termSent, killSent,
                   pidFile, metaFile, listener, nextPid, quiet, after, lastStop>>

LifeNext ==
    \/ \E k \in Kinds \ {"none"}, pm \in BOOLEAN : Spawn(k, pm)
    \/ \E p \in Pids, sig \in {"TERM", "KILL"} : OperatorSignal(p, sig)
    \/ \E p \in Pids : Terminate(p)
    \/ \E p \in Pids : AbsorbTerm(p)
    \/ \E p \in Pids : ServerStartBusy(p)
    \/ \E p \in Pids : ServerBind(p)
    \/ \E p \in Pids : SignalHandler(p)
    \/ \E p \in Pids : StopCollect(p)
    \/ \E p \in Pids : StopTerm(p)
    \/ \E p \in Pids : StopWait1(p)
    \/ \E p \in Pids : StopKill(p)
    \/ \E p \in Pids : StopRemove(p)
    \/ \E p \in Pids : StopFinal(p)
    \/ \E p \in Pids : StatusRun(p)

\* ============================================= generate_general_suggestion
\* A string is a sequence of symbols.  A prefix word is one symbol, so that
\* startswith(prefix) is a test of the first symbol; " " is white space, "/"
\* the slash, "x" any other text.
SupportedPrefixes == {"ssh", "cd", "git", "ls"}
\* The symbols of clipboard values.
ClipSymbols == {"ssh", " ", "/", "x"}
\* The symbols of the engine's output for a prefix.
OutputSymbols(pfx) == {pfx, " ", "x"}
ClipTypes == {"ip", "path", "text"}

\* The strings over S of at most MaxLen symbols.
Strings(S) == UNION {[1..n -> S] : n \in 0..MaxLen}

\* BASE_FALLBACK, "ls" standing for the prefixes without a template.
BASE_FALLBACK ==
    [pfx \in SupportedPrefixes |->
        CASE pfx = "ssh" -> <<"ssh", " ", "root@", "192.168.1.1">>
          [] pfx = "cd" -> <<"cd", " ", "~">>
          [] pfx = "git" -> <<"git", " ", "status">>
          [] OTHER -> <<"ls", " ", "-l">>]

\* str.strip(): leading and trailing white space removed.
RECURSIVE Strip(_)
Strip(v) ==
    IF v = <<>> THEN v
    ELSE IF Head(v) = " " THEN Strip(Tail(v))
    ELSE IF v[Len(v)] = " " THEN Strip(SubSeq(v, 1, Len(v) - 1))
    ELSE v

\* `c in v` for a single character c.
HasSymbol(v, c) == \E i \in 1..Len(v) : v[i] = c

\* `sub in v` for strings.
Contains(v, sub) ==
    \E i \in 0..Len(v) :
        i + Len(sub) <= Len(v) /\ SubSeq(v, i + 1, i + Len(sub)) = sub

\* v.startswith(pfx)
StartsWith(v, pfx) == Len(v) >= 1 /\ v[1] = pfx

\* Lines 70-76: the static default, overridden by a template built from the
\* clipboard value.
CustomFallback(pfx, cb) ==
    IF pfx = "ssh" /\ cb.type = "ip" /\ cb.value # <<>>
      THEN <<"ssh", " ", "root@">> \o cb.value
    ELSE IF pfx = "cd" /\ cb.type = "path" /\ cb.value # <<>>
      THEN <<"cd", " ">> \o cb.value
    ELSE IF pfx = "git" /\ cb.value # <<>>
      THEN <<"git", " ", "add", " ">> \o cb.value
    ELSE BASE_FALLBACK[pfx]

\* _clip_usable
ClipUsable(pfx, cb) ==
    LET t == cb.type
        v == Strip(cb.value)
    IN IF pfx = "ssh" THEN t = "ip" /\ ~HasSymbol(v, "/") /\ ~HasSymbol(v, " ")
       ELSE IF pfx = "cd" THEN t = "path" /\ v # <<>>
       ELSE IF pfx = "git" THEN t = "text" /\ v # <<>>
       ELSE FALSE

\* What create_completion does: it raises, or returns a text.
Outputs(pfx) ==
    {[raised |-> TRUE, text |-> <<>>]}
    \cup {[raised |-> FALSE, text |-> v] : v \in Strings(OutputSymbols(pfx))}

\* Lines 108-127: the text returned for the engine output o.
Suggestion(pfx, cb, fallback, o) ==
    IF o.raised THEN fallback
    ELSE LET sug == Strip(o.text) IN
         IF sug # <<>> /\ StartsWith(sug, pfx)
           THEN IF pfx = "ssh" /\ cb.value # <<>> /\ Contains(sug, cb.value)
                  THEN sug
                  ELSE (IF sug # <<pfx>> THEN sug ELSE fallback)
           ELSE fallback

NoString == <<"-">>

\* No call of generate_general_suggestion is under way.
GenIdle ==
    /\ prefix = "ssh"
    /\ clipboard = [type |-> "text", value |-> <<>>]
    /\ gpc = "off"
    /\ custom_fallback = NoString
    /\ clip_ok = FALSE
    /\ clip_for_prompt = NoString
    /\ output = [raised |-> FALSE, text |-> NoString]
    /\ suggestion = NoString

\* A call with any supported prefix and any clipboard that has both keys.
GenCalled ==
    /\ prefix \in SupportedPrefixes
    /\ clipboard \in [type : ClipTypes, value : Strings(ClipSymbols)]
    /\ gpc = "called"
    /\ custom_fallback = NoString
    /\ clip_ok = FALSE
    /\ clip_for_prompt = NoString
    /\ output = [raised |-> FALSE, text |-> NoString]
    /\ suggestion = NoString

\* Lines 69-88: custom_fallback, clip_ok and the value put in the prompt.
GenCompose ==
    /\ gpc = "called"
    /\ custom_fallback' = CustomFallback(prefix, clipboard)
    /\ clip_ok' = ClipUsable(prefix, clipboard)
    /\ clip_for_prompt' = IF ClipUsable(prefix, clipboard) THEN clipboard.value ELSE <<>>
    /\ gpc' = "prompted"
    /\ UNCHANGED <<notGen, prefix, clipboard, output, suggestion>>

\* Lines 108-127: the engine answers and the function returns.
GenReturn ==
    /\ gpc = "prompted"
    /\ \E o \in Outputs(prefix) :
         /\ output' = o
         /\ suggestion' = Suggestion(prefix, clipboard, custom_fallback, o)
    /\ gpc' = "returned"
    /\ UNCHANGED <<notGen, prefix, clipboard, custom_fallback, clip_ok, clip_for_prompt>>

GenNext ==
    \/ GenCompose
    \/ GenReturn

\* ==================================================================== client
\* The timeouts __main__ gives to request_server.
FirstTimeout == 3
SecondTimeout == 6

\* sys.argv[1]: a supported prefix, one that is not, or none.
ArgPrefixes == {"ssh", "frobnicate", ""}

\* What a remote call meets: nobody listens, the connection is refused or
\* reset, no answer within the timeout, an answer with an error status, a
\* 200 answer whose suggestion is empty, a 200 answer with a suggestion.
RemoteOutcomes == {"absent", "refused", "timeout", "error_status", "empty", "suggestion"}

\* request_server: the stripped suggestion of a 200 answer, None for an empty
\* one and for every exception.
RequestServer(met) == IF met = "suggestion" THEN "remote" ELSE "none"

\* No client runs.
ClientIdle ==
    /\ argPrefix = ""
    /\ autoStart = TRUE
    /\ cpc = "off"
    /\ calls = <<>>
    /\ remote = <<>>
    /\ launches = <<>>
    /\ loaded = "-"
    /\ csuggestion = "none"
    /\ printed = "-"
    /\ crc = NoExit

\* The client was invoked.
ClientCalled ==
    /\ argPrefix \in ArgPrefixes
    /\ autoStart \in BOOLEAN
    /\ cpc = "main"
    /\ calls = <<>>
    /\ remote = <<>>
    /\ launches = <<>>
    /\ loaded = "-"
    /\ csuggestion = "none"
    /\ printed = "-"
    /\ crc = NoExit

\* Lines 196-198: without a supported prefix the client exits 0 in silence.
ClientCheckPrefix ==
    /\ cpc = "main"
    /\ IF argPrefix = "" \/ argPrefix \notin SupportedPrefixes
         THEN cpc' = "exited" /\ crc' = "0"
         ELSE cpc' = "call1" /\ UNCHANGED crc
    /\ UNCHANGED <<notClient, argPrefix, autoStart, calls, remote, launches, loaded,
                   csuggestion, printed>>

\* Line 220 as a bug would have it: the launch is tried whatever the first
\* call gave.
AfterFirstCallAlwaysLaunching(sug) == IF autoStart THEN "launch" ELSE "load"

\* Lines 220 and 224 after the first call: launch and retry when there is no
\* suggestion and auto-start is on, else the local model when there is no
\* suggestion, else print.
AfterFirstCall(sug) ==
    IF sug = "none" /\ autoStart THEN "launch"
    ELSE IF sug = "none" THEN "load"
    ELSE "print"

\* Line 218: request_server(..., timeout=3.0)
ClientFirstCall ==
    /\ cpc = "call1"
    /\ \E met \in RemoteOutcomes :
         /\ remote' = Append(remote, met)
         /\ csuggestion' = RequestServer(met)
         /\ cpc' = AfterFirstCall(RequestServer(met))
    /\ calls' = Append(calls, FirstTimeout)
    /\ UNCHANGED <<notClient, argPrefix, autoStart, launches, loaded, printed, crc>>

\* Line 222: ensure_server_started: Popen starts the service script, or
\* raises, which is swallowed.
ClientLaunch ==
    /\ cpc = "launch"
    /\ \E res \in {"started", "popen_failed"} : launches' = Append(launches, res)
    /\ cpc' = "call2"
    /\ UNCHANGED <<notClient, argPrefix, autoStart, calls, remote, loaded,
                   csuggestion, printed, crc>>

\* Line 223: request_server(..., timeout=6.0)
ClientSecondCall ==
    /\ cpc = "call2"
    /\ \E met \in RemoteOutcomes :
         /\ remote' = Append(remote, met)
         /\ csuggestion' = RequestServer(met)
         /\ cpc' = IF RequestServer(met) = "none" THEN "load" ELSE "print"
    /\ calls' = Append(calls, SecondTimeout)
    /\ UNCHANGED <<notClient, argPrefix, autoStart, launches, loaded, printed, crc>>

\* Line 226: load_ai_model returns the model, or exits 1 when the model file
\* is missing.
ClientLoad ==
    /\ cpc = "load"
    /\ \/ loaded' = "ok" /\ cpc' = "local" /\ UNCHANGED crc
       \/ loaded' = "missing" /\ cpc' = "exited" /\ crc' = "1"
    /\ UNCHANGED <<notClient, argPrefix, autoStart, calls, remote, launches,
                   csuggestion, printed>>

\* Line 227: generate_general_suggestion with the local model.  llm.tokenize
\* is called outside the try block (line 134): when it raises, the client
\* ends with a traceback and exit code 1.  Otherwise the function returns
\* the engine's text or the fallback, neither of them empty.
ClientLocal ==
    /\ cpc = "local"
    /\ \E engine \in {"tokenize_raises", "usable", "unusable", "completion_raises"} :
         IF engine = "tokenize_raises"
           THEN cpc' = "exited" /\ crc' = "1" /\ UNCHANGED csuggestion
           ELSE /\ cpc' = "print" /\ UNCHANGED crc
                /\ csuggestion' = IF engine = "usable" THEN "local" ELSE "fallback"
    /\ UNCHANGED <<notClient, argPrefix, autoStart, calls, remote, launches, loaded,
                   printed>>

\* Lines 230-231: print(suggestion); sys.exit(0)
ClientPrint ==
    /\ cpc = "print"
    /\ printed' = csuggestion
    /\ crc' = "0"
    /\ cpc' = "exited"
    /\ UNCHANGED <<notClient, argPrefix, autoStart, calls, remote, launches, loaded,
                   csuggestion>>

ClientNext ==
    \/ ClientCheckPrefix
    \/ ClientFirstCall
    \/ ClientLaunch
    \/ ClientSecondCall
    \/ ClientLoad
    \/ ClientLocal
    \/ ClientPrint

\* ============================================================ specifications
Init == ServeInit /\ LifeInit /\ GenIdle /\ ClientIdle

\* One invocation of the client, everything else being at rest.
ClientInit == ServeInit /\ LifeInit /\ GenIdle /\ ClientCalled

ClientSpec == ClientInit /\ [][ClientNext]_vars

\* One call of generate_general_suggestion, the service being at rest.
GenInit == ServeInit /\ LifeInit /\ ClientIdle /\ GenCalled

GenSpec == GenInit /\ [][GenNext]_vars

ServeSpec == Init /\ [][ServeNext]_vars

LifeSpec == Init /\ [][LifeNext]_vars

\* Every process that can take a step of its own program eventually takes
\* it, and a queued signal is eventually acted on.  Starting a program and an
\* operator's signal are inputs: nothing says they happen.
FairLifeSpec ==
    /\ LifeSpec
    /\ \A p \in Pids :
         /\ WF_vars(Terminate(p))
         /\ WF_vars(SignalHandler(p))
         /\ WF_vars(ServerStartBusy(p))
         /\ WF_vars(ServerBind(p))
         /\ WF_vars(StopCollect(p))
         /\ WF_vars(StopTerm(p))
         /\ WF_vars(StopWait1(p))
         /\ WF_vars(StopKill(p))
         /\ WF_vars(StopRemove(p))
         /\ WF_vars(StopFinal(p))
         /\ WF_vars(StatusRun(p))

\* ==================================================================== claims
\* ------------------------------------------------------------------------ C1
\* C1: under any interleaving of the handler threads, at most one thread is
\* inside generate_general_suggestion at any time.
C1_OneInferenceAtATime ==
    \A t1 \in Threads, t2 \in Threads :
        t1 # t2 => ~(InInference(t1) /\ InInference(t2))

\* A thread is inside the inference call while another one waits for the lock.
C1_Witness ==
    \E t1 \in Threads, t2 \in Threads :
        /\ t1 # t2
        /\ InInference(t1) /\ inferLock = t1
        /\ tpc[t2] = "lock_infer"

\* ------------------------------------------------------------------------ C2
\* C2: every valid POST /complete request whose handler has ended was answered
\* 200 with a suggestion.  Stated for the requests that reached the inference
\* call with a well-formed clipboard, the case the claim is about.
C2_EveryValidRequestAnswered200 ==
    \A t \in Threads :
        ( /\ tpc[t] = "done"
          /\ ValidComplete(treq[t])
          /\ treq[t].clip \in {"ok", "absent"}
          /\ tresp[t].body # "load_failed" )
        => /\ tresp[t].code = 200
           /\ tresp[t].body \in {"raw", "fallback"}

\* ------------------------------------------------------------------------ C3
\* C3: a GET /health request is never made to wait, whoever holds the
\* inference lock, and its answer is 200 {status: ok}.
C3_HealthIgnoresLock ==
    \A t \in Threads :
        (treq[t].method = "GET" /\ treq[t].path = "/health")
        => /\ tpc[t] = "recv" => ENABLED DoGet(t)
           /\ tpc[t] = "done" => tresp[t] = Resp(200, "status_ok")

\* A health request was answered while another thread held the inference lock.
C3_Witness ==
    \E t \in Threads, u \in Threads :
        /\ t # u
        /\ treq[t].method = "GET" /\ treq[t].path = "/health"
        /\ tpc[t] = "done" /\ tresp[t] = Resp(200, "status_ok")
        /\ inferLock = u /\ InInference(u)

\* ------------------------------------------------------------------------ C4
\* C4: once the SIGTERM / SIGINT handler of a serving process has started,
\* the process eventually is gone (exited, or killed outright), and when it
\* exited on its own the records it wrote are gone with it.
C4_HandlerLeadsToCleanExit ==
    \A p \in Pids :
        (kind[p] = "server" /\ ppc[p] = "in_handler")
        ~> ( \/ ppc[p] = "dead"
             \/ ppc[p] = "exited" /\ pidFile # p /\ metaFile # p )

\* ------------------------------------------------------------------------ C5
\* The step in which invocation p of stop prints its outcome.
StopEnds(p) == kind[p] = "stop" /\ ppc[p] = "final" /\ ppc'[p] = "done"

\* The step in which invocation p of status prints its outcome.
StatusEnds(p) == kind[p] = "status" /\ ppc[p] = "run" /\ ppc'[p] = "done"

\* C5: stop prints STOPPED (exit 0) exactly when, at its final check, no pid
\* it collected is alive and the port does not answer /health; otherwise it
\* prints STOPPED_WITH_ISSUE (exit 1).
C5_StoppedIffQuiescentAtFinalCheck ==
    [][\A p \in Pids :
          StopEnds(p) =>
            IF HealthOk \/ (\E q \in cand[p] : Alive(q))
              THEN out'[p] = "STOPPED_WITH_ISSUE" /\ rc'[p] = "1"
              ELSE out'[p] = "STOPPED" /\ rc'[p] = "0"]_vars

\* A stop run reported an issue because a pid it had signalled was still
\* alive, the port being silent.
C5_Witness ==
    \E p \in Pids :
        /\ kind[p] = "stop" /\ ppc[p] = "done"
        /\ out[p] = "STOPPED_WITH_ISSUE" /\ rc[p] = "1"
        /\ killSent[p] # {}
        /\ \E q \in cand[p] : Alive(q)
        /\ ~HealthOk

\* ------------------------------------------------------------------------ C6
\* Stop run q began right after stop run after[q] had ended, and nothing else
\* happened from the beginning of the first to the end of the second.
SecondStop(q) ==
    /\ kind[q] = "stop" /\ ppc[q] = "done"
    /\ after[q] # NoPid
    /\ quiet[q]

NoSignalSent(q) == cand[q] = {} /\ termSent[q] = {} /\ killSent[q] = {}

\* C6 as claimed: from any state, stop followed by stop prints STOPPED both
\* times, and the second finds no candidate and sends no signal.
C6_StopTwiceAlwaysStopped ==
    \A q \in Pids :
        SecondStop(q) =>
            /\ out[after[q]] = "STOPPED" /\ rc[after[q]] = "0"
            /\ out[q] = "STOPPED" /\ rc[q] = "0"
            /\ NoSignalSent(q)

\* C6 as amended: when the first stop printed STOPPED, the second prints
\* STOPPED too, finds no candidate and sends no signal.
C6_StopAfterStoppedIsStopped ==
    \A q \in Pids :
        (SecondStop(q) /\ out[after[q]] = "STOPPED") =>
            /\ out[q] = "STOPPED" /\ rc[q] = "0"
            /\ NoSignalSent(q)

\* The first stop found a running service and stopped it, the second one
\* found nothing.
C6_Witness ==
    \E q \in Pids :
        /\ SecondStop(q)
        /\ out[after[q]] = "STOPPED" /\ out[q] = "STOPPED"
        /\ \E s \in termSent[after[q]] : kind[s] = "server"

\* ------------------------------------------------------------------------ C7
\* C7: a start that finds the port bound exits 0 when the occupant answers
\* /health and 1 otherwise; it queues no signal, leaves the records and the
\* port as they are and changes no other process.  A start binds only a free
\* port.
C7_BusyStartIsNoOp ==
    [][\A p \in Pids :
          (kind[p] = "server" /\ ppc[p] = "start") =>
            /\ (listener # NoPid /\ ppc'[p] # "start")
                 => \/ ppc'[p] = "dead"
                    \/ /\ ppc'[p] = "exited"
                       /\ rc'[p] = (IF HealthOk THEN "0" ELSE "1")
                       /\ out'[p] = (IF HealthOk THEN "INFO_RUNNING" ELSE "ERROR_PORT")
                       /\ UNCHANGED <<pidFile, metaFile, listener, pending>>
                       /\ \A r \in Pids \ {p} : ppc'[r] = ppc[r]
            /\ ppc'[p] = "serving" => listener = NoPid]_vars

\* A second start exited 0 while the first service goes on serving under its
\* own records.
C7_Witness ==
    \E p \in Pids, r \in Pids :
        /\ kind[p] = "server" /\ ppc[p] = "exited" /\ rc[p] = "0"
        /\ kind[r] = "server" /\ ppc[r] = "serving"
        /\ listener = r /\ pidFile = r /\ metaFile = r

\* ------------------------------------------------------------------------ C8
\* C8 as claimed: status prints RUNNING (exit 0) exactly when one of the four
\* probes is positive: a recorded pid answers the signal probe, the port
\* answers /health, a process listens on the port, or the process scan finds
\* a pid.
C8_AnyOfFourProbesMeansRunning ==
    [][\A p \in Pids :
          StatusEnds(p) =>
            LET positive == \/ PidRunning(pidFile) \/ PidRunning(metaFile)
                            \/ HealthOk
                            \/ listener # NoPid
                            \/ FindServerPids(p) # {}
            IN IF positive THEN out'[p] = "RUNNING" /\ rc'[p] = "0"
               ELSE out'[p] = "STOPPED" /\ rc'[p] = "1"]_vars

\* C8 as amended: status prints RUNNING (exit 0) exactly when a recorded pid
\* (pid record or meta record) answers the signal probe, or the port answers
\* /health, or the process scan finds a pid; a process that listens on the
\* port without answering /health does not make it RUNNING.
C8_ThreeProbesMeanRunning ==
    [][\A p \in Pids :
          StatusEnds(p) =>
            LET positive == \/ pidFile # NoPid /\ Alive(pidFile) /\ perm[pidFile]
                            \/ metaFile # NoPid /\ Alive(metaFile) /\ perm[metaFile]
                            \/ HealthOk
                            \/ \E q \in Pids \ {p} : Alive(q) /\ kind[q] \in ScriptKinds
            IN IF positive THEN out'[p] = "RUNNING" /\ rc'[p] = "0"
               ELSE out'[p] = "STOPPED" /\ rc'[p] = "1"]_vars

\* status printed STOPPED while a process started before it holds the port.
C8_Witness ==
    \E p \in Pids :
        /\ kind[p] = "status" /\ ppc[p] = "done"
        /\ out[p] = "STOPPED" /\ rc[p] = "1"
        /\ listener # NoPid /\ listener < p

\* ------------------------------------------------------------------------ C9
\* The recorded pids whose process is gone.
StaleRecords == {r \in {pidFile, metaFile} \ {NoPid} : ~Alive(r)}

\* What _collect_pids of stop run p found was stale: s holds a pid that was
\* dropped although the caller may signal it, so its process was gone.  Only
\* the records can name such a pid: the port listener and the process scan
\* give live processes.
StaleFound(p) == {r \in found[p] \ cand[p] : perm[r]}

\* C9, the part about status: with a stale record, a silent port and an empty
\* process scan, status prints STOPPED.
C9_StatusPart(p) ==
    ( /\ StatusEnds(p)
      /\ StaleRecords # {}
      /\ StaleRecords = {pidFile, metaFile} \ {NoPid}
      /\ ~HealthOk
      /\ FindServerPids(p) = {} )
    => out'[p] = "STOPPED" /\ rc'[p] = "1"

Unconfirmed(q) == q # NoPid /\ Alive(q) /\ ~perm[q]

\* C10: while a pid that status read from the records, or that stop found,
\* is alive and only fails the probe for lack of permission, status does not
\* print STOPPED and stop does not print STOPPED.
C10_UnconfirmedPidCountsAsRunning ==
    [][\A p \in Pids :
          /\ (StatusEnds(p) /\ (Unconfirmed(pidFile) \/ Unconfirmed(metaFile)))
               => out'[p] # "STOPPED"
          /\ (StopEnds(p) /\ (\E q \in found[p] : Unconfirmed(q)))
               => out'[p] # "STOPPED"]_vars

\* ----------------------------------------------------------------------- C11
\* C11: in every stop run SIGKILL is sent only from the escalation step, which
\* is entered only from the first wait when its poll found a candidate pid
\* alive or the port answering /health, SIGTERM having gone to the whole
\* candidate set; SIGKILL goes to exactly the set collected at the start and
\* reaches no pid outside it; when the first wait succeeds no SIGKILL is sent.
C11_KillOnlyAfterFailedGracefulWait ==
    [][\A p \in Pids :
          kind[p] = "stop" =>
            /\ killSent'[p] # killSent[p]
                 => /\ ppc[p] = "kill" /\ cand[p] # {}
                    /\ termSent[p] = cand[p] /\ killSent'[p] = cand[p]
            /\ (ppc[p] # "kill" /\ ppc'[p] = "kill")
                 => /\ ppc[p] = "wait1" /\ termSent[p] = cand[p]
                    /\ (HealthOk \/ \E q \in cand[p] : Alive(q) /\ perm[q])
            /\ (ppc[p] = "kill" /\ ppc'[p] = "remove")
                 => \A q \in Pids :
                        pending'[q] # pending[q] => q \in cand[p] /\ pending'[q] = "KILL"
            /\ (ppc[p] = "wait1" /\ ppc'[p] = "remove")
                 => /\ ~HealthOk /\ ~(\E q \in cand[p] : Alive(q) /\ perm[q])
                    /\ killSent'[p] = {}
            /\ cand'[p] # cand[p] => ppc[p] = "collect"]_vars

\* A stop run escalated: SIGKILL went to its candidate set, and a pid it had
\* found but could not probe got no signal from it.
C11_Witness ==
    \E p \in Pids :
        /\ kind[p] = "stop" /\ ppc[p] = "done"
        /\ killSent[p] = cand[p] /\ termSent[p] = cand[p] /\ cand[p] # {}
        /\ found[p] # cand[p]

Malformed(r) ==
    /\ r.method = "POST" /\ r.path = "/complete"
    /\ \/ r.body \in {"bad_json", "non_object"}
       \/ r.body = "object" /\ r.prefix \notin KnownPrefixes
       \/ r.clip \in {"no_value", "no_type"}

\* C13: every malformed POST /complete request whose handler has ended was
\* answered with a 4xx response; none ended with the handler raising.
C13_MalformedRequestsGet4xx ==
    \A t \in Threads :
        (tpc[t] = "done" /\ Malformed(treq[t]) /\ tresp[t].body # "load_failed")
        => tresp[t].code \in 400..499

\* ----------------------------------------------------------------------- C14
\* A request do_POST rejects: the body does not parse, or it is an object
\* whose prefix is empty, missing or unknown.
Rejected(r) ==
    /\ r.method = "POST" /\ r.path = "/complete"
    /\ \/ r.body = "bad_json"
       \/ r.body = "object" /\ r.prefix \notin KnownPrefixes

\* C14: a body that does not parse is answered 400 bad_json, an object with
\* an empty, missing or unknown prefix 400 bad_prefix; the handler of such a
\* request never calls get_llm, never waits for or holds a lock and never
\* enters the inference call.
C14_RejectedBeforeModelAndLock ==
    \A t \in Threads :
        Rejected(treq[t]) =>
            /\ tpc[t] \in {"recv", "done"}
            /\ initLock # t /\ inferLock # t
            /\ tpc[t] = "done" =>
                 tresp[t] = (IF treq[t].body = "bad_json" THEN Resp(400, "bad_json")
                             ELSE Resp(400, "bad_prefix"))

\* Both kinds of rejected request were answered while the model had never
\* been loaded.
C14_Witness ==
    \E t \in Threads, u \in Threads :
        /\ treq[t].body = "bad_json" /\ tresp[t] = Resp(400, "bad_json")
        /\ treq[u].prefix = "frobnicate" /\ tresp[u] = Resp(400, "bad_prefix")
        /\ LLM = 0 /\ loads = 0 /\ inferLock = NoThread

\* ----------------------------------------------------------------------- C15
\* C15: whatever the engine does while it tokenizes the prompt or completes
\* it, generate_general_suggestion returns (the raw text or the fallback): no
\* step out of the tokenization or the completion ends the handler.
C15_EngineExceptionsStayInside ==
    [][\A t \in Threads :
          (tpc[t] \in {"tokenize", "complete"} /\ tpc'[t] # tpc[t])
          => /\ tpc'[t] \in {"complete", "respond"}
             /\ tresp'[t].body \notin {"tokenize_raised", "completion_raised"}]_vars

\* ----------------------------------------------------------------------- C20
\* C20: load_ai_model returns an instance at most once; LLM is None or that
\* one instance, and every thread past get_llm uses it.
C20_ModelLoadedAtMostOnce ==
    /\ loads <= 1
    /\ LLM = loads
    /\ \A t \in Threads :
          tpc[t] \in {"lock_infer", "compose", "tokenize", "complete", "respond"} => LLM = 1

\* Two first requests both saw LLM None; one loaded the model, the other
\* holds the init lock and is about to test LLM again.
C20_Witness ==
    \E t \in Threads, u \in Threads :
        /\ t # u
        /\ tpc[t] = "init_locked" /\ initLock = t
        /\ tpc[u] \in {"lock_infer", "compose", "tokenize", "complete", "respond", "done"}
        /\ ValidComplete(treq[u])
        /\ LLM = 1 /\ loads = 1

\* ----------------------------------------------------------------------- C16
\* C16: for every supported prefix and every clipboard that fails the
\* usability rule of the prefix, the fallback is the static default of the
\* prefix, not a command built from the clipboard value.
C16_UnusableClipboardGivesStaticFallback ==
    (gpc \in {"prompted", "returned"} /\ ~ClipUsable(prefix, clipboard))
    => custom_fallback = BASE_FALLBACK[prefix]

\* ----------------------------------------------------------------------- C17
\* C17: the function returns the stripped engine text only when it starts
\* with the prefix and is not the bare prefix, and the fallback otherwise;
\* what it returns starts with the prefix and is never the bare prefix.
C17_SuggestionStartsWithPrefixAndIsMore ==
    gpc = "returned" =>
        /\ StartsWith(suggestion, prefix)
        /\ suggestion # <<prefix>>
        /\ LET sug == Strip(output.text) IN
             IF ~output.raised /\ StartsWith(sug, prefix) /\ sug # <<prefix>>
               THEN suggestion = sug
               ELSE suggestion = custom_fallback

\* ----------------------------------------------------------------------- C18
\* C18: a client invoked with a supported prefix, whose local model can be
\* loaded, ends having printed a non-empty suggestion with exit code 0,
\* whatever the remote calls met.
C18_ClientAlwaysPrintsSuggestion ==
    (cpc = "exited" /\ argPrefix \in SupportedPrefixes /\ loaded # "missing")
    => printed \in {"remote", "local", "fallback"} /\ crc = "0"

\* ----------------------------------------------------------------------- C19
\* Every remote call made so far yielded no suggestion.
NoRemoteSuggestion == \A i \in 1..Len(remote) : RequestServer(remote[i]) = "none"

\* C19: the launch is requested at most once, only after the first remote
\* call (3 s) yielded no suggestion and only with auto-start on; the second
\* remote call (6 s) is made only after that launch; the local model is
\* loaded only when every remote call made yielded no suggestion; when the
\* first remote call succeeds nothing is launched and no model is loaded.
C19_EscalationInOrder ==
    /\ Len(launches) <= 1
    /\ Len(launches) = 1
         => autoStart /\ Len(remote) >= 1 /\ RequestServer(remote[1]) = "none"
    /\ calls \in {<<>>, <<FirstTimeout>>, <<FirstTimeout, SecondTimeout>>}
    /\ Len(calls) = Len(remote)
    /\ Len(calls) = 2 => Len(launches) = 1
    /\ cpc = "call2" => Len(launches) = 1 /\ Len(calls) = 1
    /\ cpc = "launch" => Len(calls) = 1 /\ launches = <<>>
    /\ (cpc \in {"load", "local"} \/ loaded # "-")
         => Len(remote) >= 1 /\ NoRemoteSuggestion
    /\ (Len(remote) >= 1 /\ RequestServer(remote[1]) = "remote")
         => launches = <<>> /\ loaded = "-" /\ Len(calls) = 1

\* The whole ladder was climbed: first call, launch, second call, local model.
C19_Witness ==
    /\ cpc = "exited" /\ printed \in {"local", "fallback"}
    /\ calls = <<FirstTimeout, SecondTimeout>>
    /\ Len(launches) = 1 /\ loaded = "ok"

\* ----------------------------------------------------------------------- C21
\* The usability rule of a prefix as it is stated: ssh takes an ip whose
\* value holds neither "/" nor a space, cd a non-empty path, git a non-empty
\* text, every other prefix nothing.
UsableAsStated(pfx, cb) ==
    CASE pfx = "ssh" -> cb.type = "ip" /\ ~HasSymbol(cb.value, "/") /\ ~HasSymbol(cb.value, " ")
      [] pfx = "cd" -> cb.type = "path" /\ cb.value # <<>>
      [] pfx = "git" -> cb.type = "text" /\ cb.value # <<>>
      [] OTHER -> FALSE

\* C21: the value put in the prompt is the clipboard value exactly when the
\* usability rule of the prefix holds, and the empty string otherwise; for
\* the prefixes other than ssh, cd and git it is always empty.
C21_PromptHoldsOnlyUsableValue ==
    gpc \in {"prompted", "returned"} =>
        /\ clip_for_prompt =
             (IF UsableAsStated(prefix, clipboard) THEN clipboard.value ELSE <<>>)
        /\ prefix \notin {"ssh", "cd", "git"} => clip_for_prompt = <<>>

\* ----------------------------------------------------------------------- C22
\* No service process exists: every live process is a stop or status
\* invocation, or a process that is not this program.
NoService == \A q \in Pids : Alive(q) => kind[q] # "server"

\* C22: stop and status invocations do not take each other for the service:
\* no stop run sends a signal to another invocation, no invocation is ended
\* by a signal, and with no service process a status run prints STOPPED.
C22_InvocationsIgnoreEachOther ==
    [][\A p \in Pids :
          /\ kind[p] = "stop" =>
               \A q \in termSent'[p] \cup killSent'[p] : kind[q] \notin {"stop", "status"}
          /\ kind[p] \in {"stop", "status"} => ppc'[p] # "dead"
          /\ (StatusEnds(p) /\ NoService) => out'[p] = "STOPPED"]_vars

====
